---- MODULE Spec2Model ----
(***************************************************************************)
(* The request/response pipeline of the digitalocean client: the Request   *)
(* builder (request.rs), the response envelopes and their pagination       *)
(* links (api/mod.rs, api/tag.rs) and the executor with its pagination     *)
(* loop.  One Request is built, executed against a provider, and the calls *)
(* it makes and the value it returns are recorded.                         *)
(***************************************************************************)
EXTENDS Integers, Sequences, FiniteSets, TLC

\* ------------------------------------------------------------------ bounds
\* Number of distinct URLs (pages) the provider serves.
MaxPages == 3
\* Largest number of values in one page.
MaxPageLen == 2
\* Largest limit a caller passes to limit().
MaxLimit == 3
\* Largest number of builder calls made on a request after new().
MaxBuilderCalls == 2

URLs == 1..MaxPages
\* Length of the call log: calls records the first MaxCalls calls of a run.
MaxCalls == MaxPages + MaxLimit + 1
\* A run whose accumulator would outgrow MaxBuf is not followed further
\* (a cycling provider with no limit grows it without end).
MaxBuf == MaxPages * MaxPageLen

\* ------------------------------------------------------- Option and Result
None == [some |-> FALSE]
Some(x) == [some |-> TRUE, val |-> x]
Ok(v) == [ok |-> TRUE, v |-> v]
Err(e) == [ok |-> FALSE, err |-> e]

Min(a, b) == IF a <= b THEN a ELSE b
Take(s, n) == SubSeq(s, 1, Min(n, Len(s)))

\* -------------------------------------------------------------------- JSON
\* serde_json::Value, as far as the pipeline looks into it.
JNull == [j |-> "null"]
JStr(s) == [j |-> "str", s |-> s]
JNum(n) == [j |-> "num", n |-> n]
JArr(a) == [j |-> "arr", a |-> a]
JObj(f) == [j |-> "obj", f |-> f]
HasField(obj, name) == obj.j = "obj" /\ name \in DOMAIN obj.f

\* The text of the URL of page u, and a text that is no URL.
UrlText(u) == <<"https", u>>
BadText == <<"not a url">>

\* Url::parse: a text to a Url, or an error.
Url_parse(s) == IF s[1] = "https" THEN Ok(s[2]) ELSE Err("parse")

\* -------------------------------------------------------------- api/mod.rs
\* url_option_serde::deserialize: null is None, a text is parsed.
url_option_serde_swallow(raw) ==
    IF raw.j = "null" THEN Ok(None)
    ELSE IF raw.j # "str" THEN Err("deserialize")
    ELSE IF Url_parse(raw.s).ok THEN Ok(Some(Url_parse(raw.s).v)) ELSE Ok(None)

url_option_serde_deserialize(raw) ==
    IF raw.j = "null" THEN Ok(None)
    ELSE IF raw.j # "str" THEN Err("deserialize")
    ELSE IF Url_parse(raw.s).ok THEN Ok(Some(Url_parse(raw.s).v))
    ELSE Err("deserialize")

\* One field of ApiPages: #[serde(with = "url_option_serde", default)].
ApiPages_field(obj, name) ==
    IF HasField(obj, name) THEN url_option_serde_deserialize(obj.f[name])
    ELSE Ok(None)

PageFields == <<"prev", "first", "next", "last">>

\* Deserialize for ApiPages (derived).
ApiPages_deserialize(raw) ==
    IF raw.j # "obj" THEN Err("deserialize")
    ELSE IF \E i \in 1..Len(PageFields) : ~ApiPages_field(raw, PageFields[i]).ok
         THEN Err("deserialize")
    ELSE Ok([prev  |-> ApiPages_field(raw, "prev").v,
             first |-> ApiPages_field(raw, "first").v,
             next  |-> ApiPages_field(raw, "next").v,
             last  |-> ApiPages_field(raw, "last").v])

\* Deserialize for ApiLinks (derived): pages is an Option<ApiPages>.
ApiLinks_deserialize(raw) ==
    IF raw.j # "obj" THEN Err("deserialize")
    ELSE IF ~HasField(raw, "pages") \/ raw.f.pages.j = "null" THEN Ok([pages |-> None])
    ELSE IF ~ApiPages_deserialize(raw.f.pages).ok THEN Err("deserialize")
    ELSE Ok([pages |-> Some(ApiPages_deserialize(raw.f.pages).v)])

\* Deserialize for ApiMeta (derived): total is required.
ApiMeta_deserialize(raw) ==
    IF HasField(raw, "total") /\ raw.f.total.j = "num"
    THEN Ok([total |-> raw.f.total.n]) ELSE Err("deserialize")

\* ApiLinks::next
ApiLinks_next_none(links) == None

ApiLinks_next(links) ==
    IF links.pages.some THEN links.pages.val.next ELSE None

\* -------------------------------------------------------------- api/tag.rs
\* Deserialize for Tag (derived): name and resources are required.
Tag_deserialize(raw) ==
    IF HasField(raw, "name") /\ HasField(raw, "resources")
    THEN Ok([name |-> raw.f.name, resources |-> raw.f.resources])
    ELSE Err("deserialize")

\* Deserialize for Vec<Tag>.
VecTag_deserialize(raw) ==
    IF raw.j # "arr" THEN Err("deserialize")
    ELSE IF \E i \in 1..Len(raw.a) : ~Tag_deserialize(raw.a[i]).ok THEN Err("deserialize")
    ELSE Ok([i \in 1..Len(raw.a) |-> Tag_deserialize(raw.a[i]).v])

\* Deserialize for TagResponse (derived): the singular envelope.
TagResponse_deserialize(raw) ==
    IF HasField(raw, "tag") /\ Tag_deserialize(raw.f.tag).ok
    THEN Ok([tag |-> Tag_deserialize(raw.f.tag).v]) ELSE Err("deserialize")

\* Deserialize for TagListResponse (derived): the list envelope.
TagListResponse_deserialize_default(raw) ==
    IF ~(HasField(raw, "links") /\ HasField(raw, "meta")) THEN Err("deserialize")
    ELSE LET tags == IF HasField(raw, "tags") THEN VecTag_deserialize(raw.f.tags)
                     ELSE Ok(<<>>)
         IN IF ~tags.ok
               \/ ~ApiLinks_deserialize(raw.f.links).ok
               \/ ~ApiMeta_deserialize(raw.f.meta).ok
            THEN Err("deserialize")
            ELSE Ok([tags  |-> tags.v,
                     links |-> ApiLinks_deserialize(raw.f.links).v,
                     meta  |-> ApiMeta_deserialize(raw.f.meta).v])

TagListResponse_deserialize(raw) ==
    IF ~(HasField(raw, "tags") /\ HasField(raw, "links") /\ HasField(raw, "meta"))
    THEN Err("deserialize")
    ELSE IF ~VecTag_deserialize(raw.f.tags).ok
            \/ ~ApiLinks_deserialize(raw.f.links).ok
            \/ ~ApiMeta_deserialize(raw.f.meta).ok
    THEN Err("deserialize")
    ELSE Ok([tags  |-> VecTag_deserialize(raw.f.tags).v,
             links |-> ApiLinks_deserialize(raw.f.links).v,
             meta  |-> ApiMeta_deserialize(raw.f.meta).v])

\* HasValue for TagResponse
TagResponse_value_envelope(self) == self

TagResponse_value(self) == self.tag

\* HasPagination for TagListResponse
next_page_stops_on_empty(self) ==
    IF Len(self.tags) = 0 THEN None ELSE ApiLinks_next(self.links)

next_page_until_total(self) ==
    IF Len(self.tags) >= self.meta.total THEN None ELSE ApiLinks_next(self.links)

next_page(self) == ApiLinks_next(self.links)

\* HasValue for TagListResponse
value_reversed(self) == [i \in 1..Len(self.tags) |-> self.tags[Len(self.tags) + 1 - i]]

value(self) == self.tags

\* -------------------------------------------------------------- request.rs
Kinds == {"List", "Create", "Get", "Update", "Delete"}

\* Method::default(): List carries its limit, None by default.
Method_default(A) ==
    IF A = "List" THEN [kind |-> "List", limit |-> None] ELSE [kind |-> A]

\* Request::new
new_empty_object(A, url) ==
    [url |-> url, body |-> JObj(<<>>), method |-> Method_default(A)]

new(A, url) == [url |-> url, body |-> JNull, method |-> Method_default(A)]

\* Request::set_body
set_body(self, body) == [self EXCEPT !.body = body]

\* Request::transmute
transmute_keeps_method(self, C) == self

transmute(self, C) == set_body(new(C, self.url), self.body)

\* Request<List, V>::limit
limit_off_by_one(self, l) ==
    [self EXCEPT !.method.limit = IF l.some THEN Some(l.val + 1) ELSE l]

limit_keeps_some(self, l) ==
    IF l.some THEN [self EXCEPT !.method.limit = l] ELSE self

limit_once(self, l) ==
    IF self.method.limit.some THEN self ELSE [self EXCEPT !.method.limit = l]

limit(self, l) == [self EXCEPT !.method.limit = l]

\* url.path_segments_mut().push(segment): URLs are opaque here, and pushing a
\* segment gives another URL.
push_segment(url) == (url % MaxPages) + 1

\* TagRequest<Get, Tag>::remove_resources
ResourcesBody(resources) ==
    JObj([resources |->
        JArr([i \in 1..Len(resources) |->
            JObj([resource_id |-> JStr(resources[i][1]),
                  resource_type |-> JStr(resources[i][2])])])])

remove_resources(self, resources) ==
    transmute(set_body([self EXCEPT !.url = push_segment(self.url)],
                       ResourcesBody(resources)), "Delete")

\* TagRequest<Get, Tag>::add_resources
add_resources(self, resources) ==
    transmute(set_body([self EXCEPT !.url = push_segment(self.url)],
                       ResourcesBody(resources)), "Create")

\* DomainRequest<Get, Domain>::records
records(self) == transmute([self EXCEPT !.url = push_segment(self.url)], "List")

\* DomainRecordRequest<List, Vec<DomainRecord>>::delete
DomainRecordRequest_delete(self) ==
    transmute([self EXCEPT !.url = push_segment(self.url)], "Delete")

\* url.query_pairs_mut().append_pair(name, value): another URL.
append_pair(url) == (url % MaxPages) + 1

\* VolumeRequest<List, Vec<Volume>>::region
region(self) == [self EXCEPT !.url = append_pair(self.url)]

\* Executable::execute: the client method each impl calls.
execute_update_posts(self) ==
    CASE self.method.kind = "List"   -> "list"
      [] self.method.kind = "Create" -> "post"
      [] self.method.kind = "Update" -> "post"
      [] self.method.kind = "Get"    -> "get"
      [] self.method.kind = "Delete" -> "delete"

execute(self) ==
    CASE self.method.kind = "List"   -> "list"
      [] self.method.kind = "Create" -> "post"
      [] self.method.kind = "Update" -> "put"
      [] self.method.kind = "Get"    -> "get"
      [] self.method.kind = "Delete" -> "delete"

\* ---------------------------------------------------------------- provider
\* The tag the provider holds as the i-th value of the page at URL u.
Item(u, i) == JObj([name |-> JStr(<<"tag", u, i>>), resources |-> JObj(<<>>)])

\* The URL at position i of a cursor chain that starts at URL start.
Rot(start, i) == ((start + i - 2) % MaxPages) + 1

\* How the last page of a chain ends: no pages block, a pages block without
\* next, next null, next a text that is no URL, a body without the wrapper
\* field, or next the URL of the page at an earlier position (a cycle).
Endings(k) ==
    {[kind |-> e] : e \in {"nopages", "missing", "null", "bad", "nowrapper"}}
    \cup {[kind |-> "back", to |-> b] : b \in 1..k}

SumTo(lens, k) ==
    LET RECURSIVE S(_)
        S(i) == IF i = 0 THEN 0 ELSE lens[i] + S(i - 1)
    IN S(k)

PagesBlock(start, k, i, ending) ==
    LET nextRaw == IF i < k THEN JStr(UrlText(Rot(start, i + 1)))
                   ELSE IF ending.kind = "null" THEN JNull
                   ELSE IF ending.kind = "bad" THEN JStr(BadText)
                   ELSE JStr(UrlText(Rot(start, ending.to)))
        hasNext == i < k \/ ending.kind # "missing"
        names == (IF i > 1 THEN {"prev", "first"} ELSE {})
                 \cup (IF hasNext THEN {"next"} ELSE {})
    IN JObj([n \in names |->
             CASE n = "prev"  -> JStr(UrlText(Rot(start, i - 1)))
               [] n = "first" -> JStr(UrlText(start))
               [] n = "next"  -> nextRaw])

\* The list response the provider gives at position i of the chain.
PageBody(start, k, lens, i, ending, total) ==
    LET n == IF i <= k THEN lens[i] ELSE 0
        pages == IF i > k \/ (i = k /\ ending.kind \in {"nopages", "nowrapper"})
                 THEN JNull
                 ELSE PagesBlock(start, k, i, ending)
        names == IF i = k /\ ending.kind = "nowrapper"
                 THEN {"links", "meta"} ELSE {"tags", "links", "meta"}
    IN JObj([f \in names |->
             CASE f = "tags"  -> JArr([j \in 1..n |-> Item(Rot(start, i), j)])
               [] f = "links" -> JObj([pages |-> pages])
               [] f = "meta"  -> JObj([total |-> JNum(total)])])

PosOf(start, u) == CHOOSE i \in 1..MaxPages : Rot(start, i) = u

\* A provider: a chain of k pages that starts at URL start, the pages named in
\* the order the cursors visit them, lens[i] values on the i-th, and the way
\* the last page ends.
MkProvider(start, k, lens, ending) ==
    [start |-> start, k |-> k, lens |-> lens, ending |-> ending,
     total |-> SumTo(lens, k)]

\* The same provider reporting t as meta.total.
WithTotal(p, t) == [p EXCEPT !.total = t]

\* The totals a provider may report: the number of values it holds, and for
\* a provider whose pages are all full also a count that is off.
Totals(p) ==
    {SumTo(p.lens, p.k)}
    \cup (IF \A i \in 1..p.k : p.lens[i] = MaxPageLen THEN {0} ELSE {})

\* The list response provider p gives at URL u.
Page(p, u) ==
    PageBody(p.start, p.k, p.lens, PosOf(p.start, u), p.ending, p.total)

\* The number of values a page holds: none, one, or a full page.
PageLens == {0, 1, MaxPageLen}

\* The providers a list request at URL start can meet.
Chains(start) ==
    { MkProvider(start, k, lens, e) :
        <<k, lens, e>> \in UNION { {k} \X [1..k -> PageLens] \X Endings(k) :
                                   k \in 1..MaxPages } }

Providers(start) == UNION { {WithTotal(p, t) : t \in Totals(p)} : p \in Chains(start) }

NoProvider == MkProvider(1, 0, <<>>, [kind |-> "nopages"])

\* The providers a single-call request at URL u can meet: one that answers with
\* the envelope, one whose body lacks the wrapper field.
SingleProviders(u) ==
    {MkProvider(u, 0, <<>>, [kind |-> e]) : e \in {"nopages", "nowrapper"}}

\* ------------------------------------------------------------------- state
VARIABLES
    req,          \* the Request being built, then executed
    nbuilt,       \* builder calls made on it so far
    built,        \* the builder calls made on it, each with the request before and after
    limit_arg,    \* the argument of the caller's latest limit() call
    pc,           \* "build", the client method that runs, "done" or "cutoff"
    provider,     \* the provider the request is executed against
    current_url,  \* pagination loop: the URL of the next GET
    buffer,       \* pagination loop: the accumulator
    remaining,    \* pagination loop: what is left of the limit
    inflight,     \* HTTP calls sent and not yet answered
    calls,        \* the HTTP calls made, in order (the first MaxCalls)
    received,     \* the URLs whose response was received and parsed, in order
    result        \* what execute returned

vars == <<req, nbuilt, built, limit_arg, pc, provider, current_url, buffer, remaining,
          inflight, calls, received, result>>

Pending == [pending |-> TRUE]
Unit == <<>>

Limits == {None} \cup {Some(n) : n \in 0..MaxLimit}
Bodies == {JObj([name |-> JStr("n")])}
ResourceLists == {<<>>, <<<<"1", "droplet">>>>}

Record(log, x) == IF Len(log) < MaxCalls THEN Append(log, x) ELSE log

Init ==
    /\ req \in {new(A, 1) : A \in Kinds}
    /\ nbuilt = 0
    /\ built = <<>>
    /\ limit_arg = None
    /\ pc = "build"
    /\ provider = NoProvider
    /\ current_url = 1
    /\ buffer = <<>>
    /\ remaining = None
    /\ inflight = 0
    /\ calls = <<>>
    /\ received = <<>>
    /\ result = Pending

run_vars == <<pc, provider, current_url, buffer, remaining, inflight, calls,
              received, result>>

\* ------------------------------------------------------------ the builder
Building == pc = "build" /\ nbuilt < MaxBuilderCalls

\* A builder call consumes the request and gives the next one.
Call(op, arg, after) == [op |-> op, arg |-> arg, before |-> req, after |-> after]

SetBody(b) ==
    /\ Building
    /\ req.method.kind # "List"
    /\ req' = set_body(req, b)
    /\ built' = Append(built, Call("set_body", b, set_body(req, b)))
    /\ nbuilt' = nbuilt + 1
    /\ UNCHANGED <<limit_arg, run_vars>>

Limit(l) ==
    /\ Building
    /\ req.method.kind = "List"
    /\ req' = limit(req, l)
    /\ built' = Append(built, Call("limit", l, limit(req, l)))
    /\ limit_arg' = l
    /\ nbuilt' = nbuilt + 1
    /\ UNCHANGED run_vars

RemoveResources(rs) ==
    /\ Building
    /\ req.method.kind = "Get"
    /\ req' = remove_resources(req, rs)
    /\ built' = Append(built, Call("remove_resources", rs, remove_resources(req, rs)))
    /\ limit_arg' = None
    /\ nbuilt' = nbuilt + 1
    /\ UNCHANGED run_vars

AddResources(rs) ==
    /\ Building
    /\ req.method.kind = "Get"
    /\ req' = add_resources(req, rs)
    /\ built' = Append(built, Call("add_resources", rs, add_resources(req, rs)))
    /\ limit_arg' = None
    /\ nbuilt' = nbuilt + 1
    /\ UNCHANGED run_vars

Records ==
    /\ Building
    /\ req.method.kind = "Get"
    /\ req' = records(req)
    /\ built' = Append(built, Call("records", None, records(req)))
    /\ limit_arg' = None
    /\ nbuilt' = nbuilt + 1
    /\ UNCHANGED run_vars

Region ==
    /\ Building
    /\ req.method.kind = "List"
    /\ req' = region(req)
    /\ built' = Append(built, Call("region", None, region(req)))
    /\ nbuilt' = nbuilt + 1
    /\ UNCHANGED limit_arg
    /\ UNCHANGED run_vars

RecordDelete ==
    /\ Building
    /\ req.method.kind = "List"
    /\ req' = DomainRecordRequest_delete(req)
    /\ built' = Append(built, Call("delete", None, DomainRecordRequest_delete(req)))
    /\ limit_arg' = None
    /\ nbuilt' = nbuilt + 1
    /\ UNCHANGED run_vars

\* ------------------------------------------------------------ the executor
\* execute(self, instance): the request is consumed by the client method.
Execute ==
    /\ pc = "build"
    /\ pc' = execute(req)
    /\ nbuilt' = 0
    /\ built' = <<>>
    /\ IF execute(req) = "list"
       THEN /\ provider' \in Providers(req.url)
            /\ current_url' = req.url
            /\ remaining' = req.method.limit
       ELSE /\ provider' \in SingleProviders(req.url)
            /\ UNCHANGED <<current_url, remaining>>
    /\ UNCHANGED <<req, limit_arg, buffer, inflight, calls, received, result>>

\* The verb of each client method, and whether it sends the request's body.
Verb(method) ==
    CASE method = "list"   -> "GET"
      [] method = "get"    -> "GET"
      [] method = "post"   -> "POST"
      [] method = "put"    -> "PUT"
      [] method = "delete" -> "DELETE"

SentBody_always(method, body) == Some(body)

SentBody(method, body) ==
    IF method \in {"post", "put"} THEN Some(body) ELSE None

\* The HTTP call a client method makes for a URL and a request body.
http_call(method, url, body) ==
    [verb |-> Verb(method), url |-> url, body |-> SentBody(method, body)]

\* How a call can fail before its body is read.
Failures == {"transport", "status"}

\* --- get, post, put, delete: one call
Single == pc \in {"get", "post", "put", "delete"}

SendCall ==
    /\ Single
    /\ inflight = 0
    /\ calls' = Record(calls, http_call(pc, req.url, req.body))
    /\ inflight' = inflight + 1
    /\ UNCHANGED <<req, nbuilt, built, limit_arg, pc, provider, current_url, buffer,
                   remaining, received, result>>

CallFail_retries(e) ==
    /\ Single
    /\ inflight > 0
    /\ inflight' = inflight - 1
    /\ UNCHANGED <<req, nbuilt, built, limit_arg, pc, provider, current_url, buffer,
                   remaining, calls, received, result>>

CallFail(e) ==
    /\ Single
    /\ inflight > 0
    /\ inflight' = inflight - 1
    /\ result' = Err(e)
    /\ pc' = "done"
    /\ UNCHANGED <<req, nbuilt, built, limit_arg, provider, current_url, buffer,
                   remaining, calls, received>>

\* The singular envelope the provider answers with at URL u.
SingleBody(u) == JObj([tag |-> Item(u, 1)])

\* A 2xx body without the wrapper field.
BareBody == JObj([message |-> JStr(<<"m">>)])

\* The response provider p gives a single call at URL u.
SingleResponse(p, u) ==
    IF p.ending.kind = "nowrapper" THEN BareBody ELSE SingleBody(u)

CallOk ==
    /\ Single
    /\ inflight > 0
    /\ inflight' = inflight - 1
    /\ result' = IF pc = "delete" THEN Ok(Unit)
                 ELSE LET d == TagResponse_deserialize(SingleResponse(provider, req.url))
                      IN IF d.ok THEN Ok(TagResponse_value(d.v)) ELSE Err("deserialize")
    /\ received' = Append(received, req.url)
    /\ pc' = "done"
    /\ UNCHANGED <<req, nbuilt, built, limit_arg, provider, current_url, buffer,
                   remaining, calls>>

\* --- list: the pagination loop
\* The loop sends a GET when none is in flight.
list_may_send_any(n) == TRUE

list_may_send(n) == n = 0

\* Step 3: the values of the page that are appended.
list_take_all(page, rem) == page

list_take(page, rem) == IF rem.some THEN Take(page, rem.val) ELSE page

\* Step 4: remaining after the append, and whether the limit is exhausted.
list_remaining(rem, taken) ==
    IF rem.some THEN Some(rem.val - Len(taken)) ELSE None

list_exhausted_never(rem) == FALSE

list_exhausted(rem) == rem.some /\ rem.val = 0

\* Step 5: the URL of the next GET.
list_advance_stays(url, next) == url

list_advance(url, next) == next.val

ListGet ==
    /\ pc = "list"
    /\ list_may_send(inflight)
    /\ calls' = Record(calls, http_call(pc, current_url, req.body))
    /\ inflight' = inflight + 1
    /\ UNCHANGED <<req, nbuilt, built, limit_arg, pc, provider, current_url, buffer,
                   remaining, received, result>>

\* An error ends execute: the accumulator is dropped with the call.
ListAbort(e) ==
    /\ result' = Err(e)
    /\ pc' = "done"
    /\ buffer' = <<>>
    /\ UNCHANGED <<current_url, remaining, received>>

ListFail(e) ==
    /\ pc = "list"
    /\ inflight > 0
    /\ inflight' = inflight - 1
    /\ ListAbort(e)
    /\ UNCHANGED <<req, nbuilt, built, limit_arg, provider, calls>>

ListPage ==
    /\ pc = "list"
    /\ inflight > 0
    /\ inflight' = inflight - 1
    /\ LET d == TagListResponse_deserialize(Page(provider, current_url))
       IN IF ~d.ok THEN ListAbort("deserialize")
          ELSE LET next   == next_page(d.v)
                   taken  == list_take(value(d.v), remaining)
                   rem    == list_remaining(remaining, taken)
                   merged == buffer \o taken
               IN IF Len(merged) > MaxBuf
                  THEN /\ pc' = "cutoff"
                       /\ UNCHANGED <<buffer, remaining, current_url, received, result>>
                  ELSE /\ buffer' = merged
                       /\ remaining' = rem
                       /\ received' = Record(received, current_url)
                       /\ IF list_exhausted(rem) \/ ~next.some
                          THEN /\ result' = Ok(merged)
                               /\ pc' = "done"
                               /\ UNCHANGED current_url
                          ELSE /\ current_url' = list_advance(current_url, next)
                               /\ UNCHANGED <<pc, result>>
    /\ UNCHANGED <<req, nbuilt, built, limit_arg, provider, calls>>

Next ==
    \/ \E b \in Bodies : SetBody(b)
    \/ \E l \in Limits : Limit(l)
    \/ \E rs \in ResourceLists : RemoveResources(rs)
    \/ \E rs \in ResourceLists : AddResources(rs)
    \/ Records
    \/ RecordDelete
    \/ Region
    \/ Execute
    \/ SendCall
    \/ \E e \in Failures : CallFail(e)
    \/ CallOk
    \/ ListGet
    \/ \E e \in Failures : ListFail(e)
    \/ ListPage

Spec == Init /\ [][Next]_vars

\* A step of the client method that runs.  At most one kind of step is enabled
\* at a time: the call is sent, or the answer to it is taken.
RunStep ==
    \/ SendCall
    \/ \E e \in Failures : CallFail(e)
    \/ CallOk
    \/ ListGet
    \/ \E e \in Failures : ListFail(e)
    \/ ListPage

\* The client runs a started call to its end, and the provider answers every
\* call that was sent.
FairSpec == Spec /\ WF_vars(RunStep)

\* ------------------------------------------------- what the provider holds
\* Read off the provider's responses as they are on the wire.
RawPagesOf(pg) == pg.f.links.f.pages

\* The next cursor of a page: "absent", "bad" (a text that is no URL) or "url".
CursorKind(pg) ==
    LET pages == RawPagesOf(pg)
    IN IF pages.j = "null" \/ "next" \notin DOMAIN pages.f \/ pages.f.next.j = "null"
       THEN "absent"
       ELSE IF pages.f.next.s[1] = "https" THEN "url" ELSE "bad"

CursorUrl(pg) == RawPagesOf(pg).f.next.s[2]

\* The values a page holds, in order.
PageValues(pg) ==
    IF "tags" \notin DOMAIN pg.f THEN <<>>
    ELSE [i \in 1..Len(pg.f.tags.a) |->
            [name |-> pg.f.tags.a[i].f.name, resources |-> pg.f.tags.a[i].f.resources]]

\* The URLs of the first n pages the cursors lead through, starting at URL u.
RECURSIVE Walk(_, _, _)
Walk(p, u, n) ==
    IF n = 0 THEN <<>>
    ELSE IF CursorKind(Page(p, u)) = "url" THEN <<u>> \o Walk(p, CursorUrl(Page(p, u)), n - 1)
    ELSE <<u>>

\* The values of the pages at the URLs of w, concatenated.
RECURSIVE Flat(_, _)
Flat(p, w) ==
    IF w = <<>> THEN <<>> ELSE PageValues(Page(p, Head(w))) \o Flat(p, Tail(w))

\* A limit of at most MaxLimit is reached within this many pages, if at all.
UnrollLen == MaxPages * (MaxLimit + 1)

Last(w) == w[Len(w)]
UrlsOf(log) == [i \in 1..Len(log) |-> log[i].url]
IsPrefix(a, b) == Len(a) <= Len(b) /\ a = SubSeq(b, 1, Len(a))
Distinct(w) == \A i, j \in 1..Len(w) : i # j => w[i] # w[j]

\* The whole chain of a provider whose cursors visit no page twice.
Chain(p, u) == Walk(p, u, MaxPages)
\* The chain ends in a page whose next is absent.
EndsAbsent(p, u) == CursorKind(Page(p, Last(Chain(p, u)))) = "absent"
\* The cursors lead back to no page already visited.
NoRevisit(p, u) == CursorKind(Page(p, Last(Chain(p, u)))) # "url"

ListRun == req.method.kind = "List" /\ pc \in {"list", "done", "cutoff"}
Returned == pc = "done"
ReturnedOk == pc = "done" /\ result.ok

\* ------------------------------------------------------------------ claims
\* C1: when a List request is executed with limit n set, the accumulator holds
\* at most n values at every point of the pagination loop, and the value that
\* execute returns has at most n values.
C1_LimitNeverExceeded ==
    (ListRun /\ limit_arg.some) =>
        /\ Len(buffer) <= limit_arg.val
        /\ ReturnedOk => Len(result.v) <= limit_arg.val

\* C1 witness: a run with limit 2 returned 2 values although the pages it
\* fetched hold more, so a page was truncated.
C1_Witness ==
    /\ ListRun /\ ReturnedOk
    /\ limit_arg = Some(2)
    /\ Len(result.v) = 2
    /\ Len(Flat(provider, received)) > 2

\* C2: a List request with no limit, against a provider whose pages are chained
\* by next cursors up to a page with absent next, returns the concatenation of
\* every page's values in page order and within-page order, with one GET per
\* page in chain order and none after the page whose next is absent.
C2_UnlimitedConcatenation ==
    (ListRun /\ ~limit_arg.some /\ EndsAbsent(provider, req.url)) =>
        /\ IsPrefix(UrlsOf(calls), Chain(provider, req.url))
        /\ \A i \in 1..Len(calls) : calls[i].verb = "GET"
        /\ ReturnedOk =>
            /\ result.v = Flat(provider, Chain(provider, req.url))
            /\ UrlsOf(calls) = Chain(provider, req.url)
            /\ inflight = 0

\* C2 witness: the three pages of 2, 2 and 1 values, no limit: 5 values and
\* 3 GETs.
C2_Witness ==
    /\ ListRun /\ ReturnedOk /\ ~limit_arg.some
    /\ Len(Chain(provider, req.url)) = 3
    /\ EndsAbsent(provider, req.url)
    /\ \A i \in 1..3 :
         Len(PageValues(Page(provider, Chain(provider, req.url)[i]))) = IF i = 3 THEN 1 ELSE 2
    /\ Len(result.v) = 5
    /\ Len(calls) = 3

\* C3: a List request with limit n returns the first min(n, total) values of
\* the cross-page concatenation, total being the number of values on all
\* pages; every page fetched before the last one is in the result whole.
C3_LimitedPrefix ==
    (ListRun /\ ReturnedOk /\ limit_arg.some) =>
        /\ result.v = Take(Flat(provider, Walk(provider, req.url, UnrollLen)),
                           limit_arg.val)
        /\ NoRevisit(provider, req.url) =>
             Len(result.v) = Min(limit_arg.val,
                                 Len(Flat(provider, Chain(provider, req.url))))
        /\ IsPrefix(Flat(provider, SubSeq(received, 1, Len(received) - 1)), result.v)

\* C3 witness: limit 3 on pages of 2 and 2 values: the first page whole and
\* one value of the second.
C3_Witness ==
    /\ ListRun /\ ReturnedOk
    /\ limit_arg = Some(3)
    /\ Len(received) = 2
    /\ Len(PageValues(Page(provider, received[1]))) = 2
    /\ Len(PageValues(Page(provider, received[2]))) = 2
    /\ Len(result.v) = 3

\* C4: once a page has been merged and the accumulator holds n values, the
\* loop returns in that very step, and after it has returned no call is made,
\* whether or not the last page carries a next cursor.
C4_NoGetAfterLimit ==
    [][ /\ (/\ pc = "list" /\ limit_arg.some
            /\ received' # received
            /\ Len(buffer') >= limit_arg.val) => pc' = "done"
        /\ pc = "done" => (pc' = "done" /\ inflight' = inflight /\ calls' = calls)
      ]_vars

\* C4 witness: the limit falls exactly on a page boundary and the last page
\* fetched carries a next cursor: the loop has returned without another GET.
C4_Witness ==
    /\ ListRun /\ ReturnedOk /\ limit_arg.some
    /\ limit_arg.val >= 1
    /\ Len(Flat(provider, received)) = limit_arg.val
    /\ CursorKind(Page(provider, Last(received))) = "url"
    /\ Len(calls) = Len(received)
    /\ inflight = 0

\* C5 as stated: every List run returns, whatever the provider.  (A run the
\* model stops following at MaxBuf counts as returned here, so only a run that
\* goes on for ever refutes the statement.)
C5_AlwaysTerminates == (pc = "list") ~> (pc \in {"done", "cutoff"})

\* C5 amended: every List run against a provider whose next cursors lead back
\* to no page already visited returns, with or without a limit.
C5_TerminatesWithoutRevisit ==
    (pc = "list" /\ NoRevisit(provider, req.url)) ~> (pc = "done")

\* C5 witness: a run over a chain of MaxPages pages that visits each once has
\* returned after fetching them all.
C5_Witness ==
    /\ ListRun /\ Returned
    /\ NoRevisit(provider, req.url)
    /\ Len(Chain(provider, req.url)) = MaxPages
    /\ UrlsOf(calls) = Chain(provider, req.url)

\* C6 as stated: no URL is the target of two GETs of one pagination loop.
C6_EachUrlOnce == ListRun => Distinct(UrlsOf(calls))

\* C6 amended: when the provider's next cursors lead back to no page already
\* visited, no URL is the target of two GETs of one pagination loop and a page
\* that was parsed is never requested again.
C6_EachUrlOnceWithoutRevisit ==
    (ListRun /\ NoRevisit(provider, req.url)) =>
        /\ Distinct(UrlsOf(calls))
        /\ Distinct(received)
        /\ \A i \in 1..Len(received) : \A j \in 1..Len(calls) :
               j > i => calls[j].url # received[i]

\* C6 witness: three pages were fetched in one loop over a chain without
\* revisits.
C6_Witness ==
    /\ ListRun /\ NoRevisit(provider, req.url)
    /\ Len(calls) = 3 /\ Len(received) = 3

\* C7: in a List run at most one call is in flight, and each GET after the
\* first is sent after the response to the one before it was received and
\* parsed, to the URL of that response's next cursor.
C7_Sequential ==
    ListRun =>
        /\ inflight <= 1
        /\ (pc = "list" /\ Len(calls) < MaxCalls) => Len(calls) = Len(received) + inflight
        /\ \A k \in 2..Len(calls) :
               /\ k - 1 <= Len(received)
               /\ received[k - 1] = calls[k - 1].url
               /\ CursorKind(Page(provider, calls[k - 1].url)) = "url"
               /\ calls[k].url = CursorUrl(Page(provider, calls[k - 1].url))

\* C7 witness: the second GET is in flight, the first response was received.
C7_Witness ==
    /\ ListRun /\ pc = "list"
    /\ inflight = 1 /\ Len(calls) = 2 /\ Len(received) = 1

\* C8: the calls of an execute depend on the operation kind alone: Get makes a
\* GET, Create a POST, Update a PUT, Delete a DELETE and List GETs in the
\* pagination loop; every kind but List makes exactly one call, to the
\* request's URL, and a successful Delete returns the unit value.
KindVerb(kind) ==
    CASE kind = "List"   -> "GET"
      [] kind = "Get"    -> "GET"
      [] kind = "Create" -> "POST"
      [] kind = "Update" -> "PUT"
      [] kind = "Delete" -> "DELETE"

C8_DispatchOnKind ==
    /\ \A i \in 1..Len(calls) : calls[i].verb = KindVerb(req.method.kind)
    /\ (pc \notin {"build", "done", "cutoff"}) =>
           (pc = "list") = (req.method.kind = "List")
    /\ req.method.kind # "List" =>
           /\ Len(calls) + inflight <= 1 \/ (Len(calls) = 1 /\ inflight = 1)
           /\ Returned => (Len(calls) = 1 /\ calls[1].url = req.url /\ inflight = 0)
    /\ (req.method.kind = "Delete" /\ ReturnedOk) => result.v = Unit

\* C8 witness: a Delete has returned the unit value after one DELETE.
C8_Witness ==
    /\ req.method.kind = "Delete" /\ ReturnedOk
    /\ result.v = Unit
    /\ Len(calls) = 1 /\ calls[1].verb = "DELETE"

\* C9: a Get or Delete sends no body: the call made is the one any request of
\* the same kind and URL makes, whatever its body, and so is the result; a
\* Create or Update sends the request's body.
AllBodies == {JNull} \cup Bodies \cup {ResourcesBody(rs) : rs \in ResourceLists}

C10_FailClosedState ==
    (ListRun /\ Returned) =>
        /\ (Len(calls) < MaxCalls /\ CursorKind(Page(provider, Last(calls).url)) = "bad")
               => ~result.ok
        /\ Len(received) < Len(calls) => ~result.ok
        /\ result.ok => Len(received) = Len(calls)
        /\ ~result.ok =>
               /\ result = Err(result.err)
               /\ result.err \in Failures \cup {"deserialize"}
               /\ buffer = <<>>
        /\ inflight = 0

C10_FailClosed ==
    /\ []C10_FailClosedState
    /\ [][pc = "done" => (pc' = "done" /\ calls' = calls /\ inflight' = inflight
                          /\ result' = result)]_vars

\* C10 witness: a later page failed after values of an earlier page had been
\* accumulated: the run returned an error and holds no value.
C10_Witness ==
    /\ ListRun /\ Returned /\ ~result.ok
    /\ Len(calls) = 2 /\ Len(received) = 1
    /\ Len(PageValues(Page(provider, received[1]))) >= 1
    /\ buffer = <<>>

\* C11: no retries.  When a call made by execute ends in a transport failure
\* or a non-success status, execute returns an error that carries no value,
\* and the failed call is the last call of the run.
C11_NoRetry ==
    /\ Single => Len(calls) <= 1
    /\ (pc \notin {"build", "cutoff"} /\ Len(calls) < MaxCalls
          /\ Len(received) + inflight < Len(calls)) =>
        /\ pc = "done"
        /\ ~result.ok
        /\ result = Err(result.err)
        /\ inflight = 0
        /\ Len(calls) = Len(received) + 1
    /\ (pc = "done" /\ ~result.ok /\ result.err \in Failures) =>
        /\ inflight = 0
        /\ Len(calls) < MaxCalls => Len(calls) = Len(received) + 1
        /\ req.method.kind # "List" => (Len(calls) = 1 /\ received = <<>>)

\* C11 witness: a Get answered with a non-success status has returned the
\* error after its one GET.
C11_Witness ==
    /\ req.method.kind = "Get" /\ Returned
    /\ result = Err("status")
    /\ calls = <<[verb |-> "GET", url |-> req.url, body |-> None]>>
    /\ received = <<>>

\* C12: a list response whose links.pages.next is present but is no URL ends
\* the pagination loop with an error: the page is not merged, no GET follows
\* it, and execute does not return the accumulated values as a success.
C12_BadCursorIsError ==
    ListRun =>
        \A i \in 1..Len(calls) :
            CursorKind(Page(provider, calls[i].url)) = "bad" =>
                /\ i = Len(calls)
                /\ \A j \in 1..Len(received) : received[j] # calls[i].url
                /\ inflight = 0 =>
                       (pc = "done" /\ ~result.ok /\ buffer = <<>>)

\* C12 witness: the second page carried values and a next that is no URL; the
\* run returned the deserialization error instead of the first page's values.
C12_Witness ==
    /\ ListRun /\ Returned /\ ~limit_arg.some
    /\ result = Err("deserialize")
    /\ Len(calls) = 2 /\ Len(received) = 1
    /\ CursorKind(Page(provider, calls[2].url)) = "bad"
    /\ Len(PageValues(Page(provider, calls[1].url))) >= 1
    /\ Len(PageValues(Page(provider, calls[2].url))) >= 1

\* C13: a response whose body lacks the wrapper field makes execute return a
\* structural-deserialization error, never a null or default result, for the
\* singular envelope and for the list envelope alike.
C13_MissingWrapperIsError ==
    /\ (pc = "done" /\ req.method.kind \in {"Get", "Create", "Update"}
          /\ received # <<>>) =>
        IF HasField(SingleResponse(provider, req.url), "tag")
        THEN result.ok
        ELSE result = Err("deserialize")
    /\ ListRun =>
        \A i \in 1..Len(calls) :
            ~HasField(Page(provider, calls[i].url), "tags") =>
                /\ i = Len(calls)
                /\ \A j \in 1..Len(received) : received[j] # calls[i].url
                /\ inflight = 0 =>
                       /\ pc = "done"
                       /\ ~result.ok
                       /\ result.err \notin Failures => result = Err("deserialize")

\* C13 witness: the second list response came without its tags field after
\* the first page's values had been accumulated; the run returned the
\* deserialization error.
C13_Witness ==
    /\ ListRun /\ Returned
    /\ result = Err("deserialize")
    /\ Len(calls) = 2 /\ Len(received) = 1
    /\ ~HasField(Page(provider, calls[2].url), "tags")
    /\ Len(PageValues(Page(provider, calls[1].url))) >= 1

\* C14: unwrapping an envelope gives exactly the content of its wrapper field:
\* the singular envelope the wrapped value unchanged, the list envelope its
\* elements in their order; links and meta are no part of the value.
C14_UnwrapIsWrapperContent ==
    /\ (ReturnedOk /\ req.method.kind \in {"Get", "Create", "Update"}) =>
        LET raw == SingleResponse(provider, req.url)
        IN result.v = [name |-> raw.f.tag.f.name, resources |-> raw.f.tag.f.resources]
    /\ (ListRun /\ Len(received) < MaxCalls /\ (pc = "list" \/ ReturnedOk)) =>
        LET all == Flat(provider, received)
        IN /\ buffer = IF limit_arg.some THEN Take(all, limit_arg.val) ELSE all
           /\ ReturnedOk => result.v = buffer

\* C14 witness: a Get has returned the tag its response wrapped.
C14_Witness ==
    /\ req.method.kind = "Get" /\ ReturnedOk
    /\ received = <<req.url>>
    /\ result.v.name = SingleBody(req.url).f.tag.f.name

\* The method value a request of kind C starts with.
FreshMethod(C) ==
    IF C = "List" THEN [kind |-> "List", limit |-> None] ELSE [kind |-> C]

\* C15: transmute of a request with URL U and body B to any kind gives a
\* request with URL U and body B whose kind is the new kind at its default: a
\* limit set on a List request before is not carried over, and a request
\* transmuted to List has limit None.
C15_TransmuteFrame ==
    /\ pc = "build" =>
        \A C \in Kinds :
            transmute(req, C) = [url |-> req.url, body |-> req.body,
                                 method |-> FreshMethod(C)]
    /\ \A i \in 1..Len(built) :
        LET c == built[i]
            pushed == push_segment(c.before.url)
        IN /\ c.op = "records" =>
                c.after = [url |-> pushed, body |-> c.before.body,
                           method |-> [kind |-> "List", limit |-> None]]
           /\ c.op = "delete" =>
                c.after = [url |-> pushed, body |-> c.before.body,
                           method |-> [kind |-> "Delete"]]
           /\ c.op = "remove_resources" =>
                c.after = [url |-> pushed, body |-> ResourcesBody(c.arg),
                           method |-> [kind |-> "Delete"]]
           /\ c.op = "add_resources" =>
                c.after = [url |-> pushed, body |-> ResourcesBody(c.arg),
                           method |-> [kind |-> "Create"]]

\* C15 witness: a List request whose limit was set to 2 has been transmuted
\* to Delete by the domain record delete; the request built holds no limit.
C15_Witness ==
    /\ pc = "build" /\ Len(built) = 2
    /\ built[1].op = "limit" /\ built[1].arg = Some(2)
    /\ built[2].op = "delete"
    /\ built[2].before.method = [kind |-> "List", limit |-> Some(2)]
    /\ req = built[2].after
    /\ req.method = [kind |-> "Delete"]
    /\ transmute(built[2].before, "List").method.limit = None

\* C16: new(url) gives a request with the URL given, a null body and the kind
\* at its default; for List the default limit is None, so a List request whose
\* limit is None is paged until a page has no next cursor.
C16_FreshRequest ==
    /\ \A u \in URLs :
           new(req.method.kind, u) = [url |-> u, body |-> JNull,
                                      method |-> FreshMethod(req.method.kind)]
    /\ (pc = "build" /\ built = <<>>) =>
           /\ req.body = JNull
           /\ req.method = FreshMethod(req.method.kind)
    /\ (ListRun /\ req.method.limit = None) =>
           /\ remaining = None
           /\ ReturnedOk =>
                /\ received # <<>>
                /\ CursorKind(Page(provider, Last(received))) = "absent"
                /\ UrlsOf(calls) = received
                /\ result.v = Flat(provider, received)

\* C16 witness: the List request as new() made it, executed: three pages were
\* fetched and the values of all of them returned.
C16_Witness ==
    /\ ListRun /\ ReturnedOk
    /\ req = [url |-> 1, body |-> JNull, method |-> [kind |-> "List", limit |-> None]]
    /\ Len(received) = MaxPages
    /\ Len(result.v) = MaxBuf

\* The builder calls that changed the limit of a List request.
LimitChanges ==
    {i \in 1..Len(built) :
        /\ built[i].before.method.kind = "List"
        /\ built[i].after.method.kind = "List"
        /\ built[i].before.method.limit # built[i].after.method.limit}

\* The kind of a request changes only where it is re-tagged.
KindFixed ==
    \A i \in 1..Len(built) :
        built[i].op \in {"set_body", "limit"} =>
            built[i].after.method.kind = built[i].before.method.kind

\* C17 as stated: the kind never changes after construction or re-tagging,
\* and over any sequence of builder calls on one List request the limit value
\* changes at most once.
C17_LimitSetOnce ==
    /\ KindFixed
    /\ Cardinality(LimitChanges) <= 1

\* C17: the kind never changes after construction or re-tagging, and the
\* limit of a List request changes only through limit(), each call of which
\* replaces the limit by its argument, however many calls were made before.
C17_LimitReplacedByEachCall ==
    /\ KindFixed
    /\ \A i \in 1..Len(built) :
        /\ built[i].op = "limit" =>
              built[i].after = [built[i].before EXCEPT !.method.limit = built[i].arg]
        /\ i \in LimitChanges => built[i].op = "limit"

\* C17 witness: limit(Some(1)) then limit(Some(2)) on one List request: the
\* limit has changed twice.
C17_Witness ==
    /\ pc = "build" /\ Len(built) = 2
    /\ built[1].op = "limit" /\ built[1].arg = Some(1)
    /\ built[2].op = "limit" /\ built[2].arg = Some(2)
    /\ built[1].before.method.limit = None
    /\ req.method.limit = Some(2)
    /\ Cardinality(LimitChanges) = 2

\* The totals a twin of the provider reports instead.
TwinTotals == {0, MaxBuf}

\* C18: meta.total plays no part in the loop: against a provider that differs
\* in meta.total alone, the response at the current URL deserializes alike
\* and gives the loop the same values and the same next cursor, so the GETs
\* and the result are the same for every limit.
C18_MetaTotalUnused ==
    ListRun =>
        /\ (pc = "list" /\ inflight > 0) =>
            LET a == TagListResponse_deserialize(Page(provider, current_url))
            IN \A t \in TwinTotals :
                LET b == TagListResponse_deserialize(
                             Page(WithTotal(provider, t), current_url))
                IN /\ a.ok = b.ok
                   /\ a.ok => (value(a.v) = value(b.v)
                               /\ next_page(a.v) = next_page(b.v))
        /\ (ReturnedOk /\ Len(received) < MaxCalls) =>
            \A t \in TwinTotals :
                result.v = IF limit_arg.some
                           THEN Take(Flat(WithTotal(provider, t), received),
                                     limit_arg.val)
                           ELSE Flat(WithTotal(provider, t), received)

\* C18 witness: a provider that reports total 0 on two full pages, limit 3: the
\* second page was fetched and three values returned.
C18_Witness ==
    /\ ListRun /\ ReturnedOk
    /\ provider.total = 0
    /\ limit_arg = Some(3)
    /\ Len(received) = 2
    /\ Len(result.v) = 3

\* C19: the next cursor is absent when links.pages.next is null or missing
\* and when links has no pages block; after such a page the loop stops and
\* returns the accumulator.  After a page whose next is a URL the loop goes on
\* with exactly that URL, unless the limit is exhausted.
C19_AbsentCursorStops ==
    (ListRun /\ Len(received) < MaxCalls) =>
        \A i \in 1..Len(received) :
            LET pg == Page(provider, received[i])
            IN /\ CursorKind(pg) = "absent" =>
                    /\ i = Len(received)
                    /\ Len(calls) = i
                    /\ ReturnedOk
                    /\ result.v = buffer
               /\ CursorKind(pg) = "url" =>
                    /\ i < Len(calls) => calls[i + 1].url = CursorUrl(pg)
                    /\ (i = Len(calls) /\ pc = "list") => current_url = CursorUrl(pg)
                    /\ (i = Len(calls) /\ ReturnedOk) =>
                          (limit_arg.some /\ Len(result.v) = limit_arg.val)

\* C19 witness: the second page came with links that hold no pages block; the
\* loop stopped there and returned the values of both pages.
C19_Witness ==
    /\ ListRun /\ ReturnedOk /\ ~limit_arg.some
    /\ Len(received) = 2 /\ Len(calls) = 2
    /\ RawPagesOf(Page(provider, received[2])) = JNull
    /\ CursorKind(Page(provider, received[1])) = "url"
    /\ Len(result.v) = 2 * MaxPageLen

\* C20: a List request with limit Some(0) returns the empty sequence, and
\* makes exactly one GET, to the request's URL, and none after it.
C20_LimitZero ==
    (ListRun /\ limit_arg = Some(0)) =>
        /\ Len(calls) <= 1
        /\ buffer = <<>>
        /\ pc # "cutoff"
        /\ \A i \in 1..Len(calls) :
               calls[i] = [verb |-> "GET", url |-> req.url, body |-> None]
        /\ pc = "done" => (Len(calls) = 1 /\ inflight = 0)
        /\ ReturnedOk => (result.v = <<>> /\ received = <<req.url>>)

\* C20 witness: limit Some(0) against a first page that holds values and a
\* next URL: one GET, the empty sequence returned.
C20_Witness ==
    /\ ListRun /\ ReturnedOk
    /\ limit_arg = Some(0)
    /\ result.v = <<>>
    /\ Len(calls) = 1
    /\ Len(PageValues(Page(provider, req.url))) >= 1
    /\ CursorKind(Page(provider, req.url)) = "url"

\* The last limit() call made on the request being built, if there is one.
LastLimitCall ==
    LET at == {i \in 1..Len(built) : built[i].op = "limit"}
    IN IF at = {} THEN None
       ELSE Some(built[CHOOSE i \in at : \A j \in at : j <= i])

\* C21: limit(x) changes only the limit held in the List kind: URL and body
\* after the call are those before it.  When limit is called several times on
\* one builder chain the value of the last call is in force, so that
\* limit(Some(n)) followed by limit(None) is unbounded.
C21_LimitFrameLastWins ==
    /\ \A i \in 1..Len(built) :
        built[i].op = "limit" =>
            /\ built[i].after.url = built[i].before.url
            /\ built[i].after.body = built[i].before.body
            /\ built[i].after.method = [kind |-> "List", limit |-> built[i].arg]
    /\ (pc = "build" /\ req.method.kind = "List" /\ LastLimitCall.some) =>
            req.method.limit = LastLimitCall.val.arg
    /\ ListRun =>
        /\ req.method.limit = limit_arg
        /\ pc = "list" =>
              remaining = IF limit_arg.some
                          THEN Some(limit_arg.val - Len(buffer)) ELSE None

\* C21 witness: limit(Some(1)) then limit(None) on one List request: the
\* request built is unbounded, with the URL and body it had.
C21_Witness ==
    /\ pc = "build" /\ Len(built) = 2
    /\ built[1].op = "limit" /\ built[1].arg = Some(1)
    /\ built[2].op = "limit" /\ built[2].arg = None
    /\ built[2].before.method.limit = Some(1)
    /\ req = [url |-> built[1].before.url, body |-> built[1].before.body,
              method |-> [kind |-> "List", limit |-> None]]

\* C22: an empty page does not end the pagination loop: after a page with no
\* values and a next URL, the limit (if any) not yet reached, the loop has not
\* returned and its next GET goes to that URL, so the values of later pages
\* are in what it returns.
C22_EmptyPageGoesOn ==
    (ListRun /\ Len(received) < MaxCalls) =>
        /\ \A i \in 1..Len(received) :
            LET pg == Page(provider, received[i])
                sofar == Len(Flat(provider, SubSeq(received, 1, i)))
            IN (/\ PageValues(pg) = <<>>
                /\ CursorKind(pg) = "url"
                /\ limit_arg.some => sofar < limit_arg.val) =>
                   /\ Len(calls) = i =>
                         (pc = "list" /\ inflight = 0 /\ current_url = CursorUrl(pg))
                   /\ Len(calls) > i => calls[i + 1].url = CursorUrl(pg)
        /\ (ReturnedOk /\ ~limit_arg.some) =>
              Len(result.v) = Len(Flat(provider, received))

\* C22 witness: pages of one, no and one value: the loop went past the empty
\* second page and returned the value of the third with that of the first.
C22_Witness ==
    /\ ListRun /\ ReturnedOk /\ ~limit_arg.some
    /\ Len(received) = 3
    /\ Len(PageValues(Page(provider, received[1]))) = 1
    /\ PageValues(Page(provider, received[2])) = <<>>
    /\ Len(PageValues(Page(provider, received[3]))) = 1
    /\ result.v = PageValues(Page(provider, received[1]))
                    \o PageValues(Page(provider, received[3]))

\* The cursors of the provider lead back to a page already visited.
Cyclic(p, u) == ~NoRevisit(p, u)

\* The pages the cursors lead through, from URL u on.
PagesFrom(p, u) == LET chain == Chain(p, u) IN {chain[i] : i \in 1..Len(chain)}

\* Every page the provider returns holds a value; none does.
AllNonEmpty(p, u) == \A v \in PagesFrom(p, u) : PageValues(Page(p, v)) # <<>>
AllEmpty(p, u) == \A v \in PagesFrom(p, u) : PageValues(Page(p, v)) = <<>>

\* A page without values was fetched and parsed.
EmptyFetched ==
    \E i \in 1..Len(received) : PageValues(Page(provider, received[i])) = <<>>

\* A limit of at least one is set.
Limited == limit_arg.some /\ limit_arg.val >= 1

\* With limit n >= 1 and a value on every page, the loop makes at most n GETs.
AtMostLimitGets ==
    (ListRun /\ Limited /\ AllNonEmpty(provider, req.url)) =>
        (Len(calls) <= limit_arg.val /\ pc # "cutoff")

One(T) == [vec |-> FALSE, of |-> T]
Vec(T) == [vec |-> TRUE, of |-> T]

\* The resource functions that give a List request.
ListProducers ==
    {"Tag::list", "Region::list", "Size::list", "Volume::list",
     "FloatingIp::list", "records", "snapshots"}

\* The result type each of them declares for the request it returns.
ResultType(f) ==
    CASE f = "Tag::list"        -> One("Tag")
      [] f = "Region::list"     -> Vec("Region")
      [] f = "Size::list"       -> Vec("Size")
      [] f = "Volume::list"     -> Vec("Volume")
      [] f = "FloatingIp::list" -> Vec("FloatingIp")
      [] f = "records"          -> Vec("DomainRecord")
      [] f = "snapshots"        -> Vec("Snapshot")

\* impl HasResponse for Vec<Snapshot>, with its paginated list envelope.
Snapshot_HasResponse(T) ==
    IF T = Vec("Snapshot") THEN Some("SnapshotListResponse") ELSE None

\* impl HasResponse for T: the envelope of T, if T declares one.
HasResponse(T) ==
    CASE T = One("Tag")          -> Some("TagResponse")
      [] T = Vec("Tag")          -> Some("TagListResponse")
      [] T = Vec("Region")       -> Some("RegionListResponse")
      [] T = Vec("Size")         -> Some("SizeListResponse")
      [] T = One("Volume")       -> Some("VolumeResponse")
      [] T = Vec("Volume")       -> Some("VolumeListResponse")
      [] T = One("FloatingIp")   -> Some("FloatingIpResponse")
      [] T = Vec("FloatingIp")   -> Some("FloatingIpListResponse")
      [] T = One("DomainRecord") -> Some("DomainRecordResponse")
      [] T = Vec("DomainRecord") -> Some("DomainRecordListResponse")
      [] OTHER                   -> Snapshot_HasResponse(T)

\* impl HasPagination for R
HasPagination(R) ==
    R \in {"TagListResponse", "RegionListResponse", "SizeListResponse",
           "VolumeListResponse", "FloatingIpListResponse",
           "DomainRecordListResponse", "SnapshotListResponse"}

\* impl<V> Executable<Vec<V>> for Request<List, Vec<V>>: its where clauses.
Executable_List(T) ==
    /\ T.vec
    /\ HasResponse(T).some
    /\ HasPagination(HasResponse(T).val)

\* C24: every List request a resource function gives is typed with a
\* collection whose list envelope has pagination, so that execute is defined
\* for it and runs the pagination loop.
C24_ListRequestsExecutable ==
    (pc = "build" /\ req.method.kind = "List") =>
        \A f \in ListProducers : Executable_List(ResultType(f))

====
